---- MODULE Spec2Model ----
(***************************************************************************)
(* Model of `view`, a dual-pane live-output viewer (src/src/main.rs).      *)
(*                                                                         *)
(* Four threads: the main thread (main + update's render loop), the left   *)
(* and right reader threads, and the input thread.  They share one         *)
(* Mutex<State> and one mpsc channel of Event values.                      *)
(*                                                                         *)
(* Text is modelled as sequences of one-character strings, so that the     *)
(* splitting of a command string into tokens and of a pane's content into  *)
(* lines are computed and not assumed.                                     *)
(*                                                                         *)
(* The terminal driver, the widget renderer and ansi_to_tui are libraries: *)
(* their calls are modelled as succeeding (no `?` error, no panic in       *)
(* `into_text().unwrap()`), and plain text carries no escape sequences.    *)
(***************************************************************************)
EXTENDS Integers, Sequences, FiniteSets, TLC

\* ------------------------------------------------------------------ bounds
\* Largest terminal height (rows) a draw may observe.
MaxHeight == 1
\* Largest number of key events the input thread reads.
MaxKeys == 2
\* Largest number of lines the two children deliver in total.
MaxLines == 2

\* ------------------------------------------------------------ vocabulary
Panes == {"left", "right"}
NL == "\n"
SP == " "
Exit == "Exit"
Draw == "Draw"
NoHolder == "none"
UsageMessage == "view <left> <right>"

\* Command strings the user may supply on the command line.  Program `p`
\* prints each of its arguments on a line of its own; program `x` does not
\* exist, so starting it fails.
CmdEmpty == <<>>
CmdBlank == <<SP>>
CmdMissing == <<"x">>
CmdPrintA == <<"p", SP, "a">>
CmdPrintAB == <<"p", SP, "a", SP, "b">>

\* The argument vectors (without argv[0]) the process may be started with:
\* too few arguments, and pairs that cover every kind of command on either
\* side.
ArgVectors ==
  { <<>>,
    <<CmdPrintA>>,
    <<CmdPrintA, CmdPrintA>>,
    <<CmdPrintAB, CmdBlank>>,
    <<CmdEmpty, CmdPrintA>>,
    <<CmdMissing, CmdPrintA>>,
    <<CmdPrintA, CmdMissing>> }

Keys == {"q", "k"}
Heights == 0..MaxHeight

\* --------------------------------------------------------- pure functions
Min(a, b) == IF a < b THEN a ELSE b

\* usize::saturating_sub
SaturatingSub(a, b) == IF a > b THEN a - b ELSE 0

\* Iterator::skip and Iterator::take on a vector
Skip(s, n) == SubSeq(s, n + 1, Len(s))
Take(s, n) == SubSeq(s, 1, Min(n, Len(s)))

\* str::split_whitespace: the maximal runs of non-blank characters
RECURSIVE SplitWhitespaceFrom(_, _, _)
SplitWhitespaceFrom(s, cur, acc) ==
  IF s = <<>>
    THEN IF cur = <<>> THEN acc ELSE Append(acc, cur)
    ELSE IF Head(s) = SP
      THEN SplitWhitespaceFrom(Tail(s), <<>>,
                               IF cur = <<>> THEN acc ELSE Append(acc, cur))
      ELSE SplitWhitespaceFrom(Tail(s), Append(cur, Head(s)), acc)

SplitWhitespace(s) == SplitWhitespaceFrom(s, <<>>, <<>>)

\* IntoText::into_text(..).lines on plain text: one line per terminated
\* segment, plus a last unterminated segment when it is not empty.
RECURSIVE IntoTextLinesFrom(_, _, _)
IntoTextLinesFrom(s, cur, acc) ==
  IF s = <<>>
    THEN IF cur = <<>> THEN acc ELSE Append(acc, cur)
    ELSE IF Head(s) = NL
      THEN IntoTextLinesFrom(Tail(s), <<>>, Append(acc, cur))
      ELSE IntoTextLinesFrom(Tail(s), Append(cur, Head(s)), acc)

IntoTextLines(s) == IntoTextLinesFrom(s, <<>>, <<>>)

\* The slice of a pane's lines the draw callback hands to Paragraph::new.
TailPart(lines, height) ==
  Take(Skip(lines, SaturatingSub(Len(lines), height + 2)), height)

\* The child process: what the merged output stream of a started command
\* yields, line by line.
ProgramExists(tokens) == tokens[1] = "p"
ChildOutput(tokens) == Tail(tokens)

\* nth(0) for the left reader, nth(1) for the right reader
ArgIndex(p) == IF p = "left" THEN 1 ELSE 2

\* ----------------------------------------------------------------- state
VARIABLES
  args,        \* std::env::args().skip(1)
  mainPc,      \* position of the main thread
  raw,         \* terminal is in raw mode
  altScreen,   \* terminal is on the alternate screen
  exitStatus,  \* process exit status, -1 while the process runs
  printed,     \* diagnostics printed by main, in order
  joined,      \* thread handles update has joined
  rxAlive,     \* the Receiver `rx` exists
  senders,     \* owners of a live Sender
  queue,       \* events in the channel, oldest first
  posted,      \* every event successfully sent, in send order
  received,    \* every event rx.recv() returned, in order
  lock,        \* holder of the Mutex<State>
  title,       \* State.left_title / State.right_title
  content,     \* State.left / State.right
  frame,       \* what the last completed draw rendered
  readerPc,    \* position of each reader thread
  remaining,   \* lines the running child has not yet delivered
  line,        \* the line a reader has decoded and is appending
  decoded,     \* every line a reader's lines.next() yielded, in order
  spawned,     \* how many times a reader started its command
  inputPc,     \* position of the input thread
  keys         \* how many events of each key the input thread has read

vars == <<args, mainPc, raw, altScreen, exitStatus, printed, joined, rxAlive,
          senders, queue, posted, received, lock, title, content,
          frame, readerPc, remaining, line, decoded, spawned, inputPc, keys>>

mainVars == <<mainPc, raw, altScreen, exitStatus, printed, joined>>
chanVars == <<rxAlive, senders, queue, posted, received>>
stateVars == <<lock, title, content>>
drawVars == <<frame>>
readerVars == <<readerPc, remaining, line, decoded, spawned>>
inputVars == <<inputPc, keys>>

EmptyPanes == [p \in Panes |-> <<>>]
NoFrame == [drawn |-> FALSE, height |-> 0, snap |-> EmptyPanes, part |-> EmptyPanes]

Init ==
  /\ args \in ArgVectors
  /\ mainPc = "start"
  /\ raw = FALSE
  /\ altScreen = FALSE
  /\ exitStatus = -1
  /\ printed = <<>>
  /\ joined = {}
  /\ rxAlive = FALSE
  /\ senders = {}
  /\ queue = <<>>
  /\ posted = <<>>
  /\ received = <<>>
  /\ lock = NoHolder
  /\ title = EmptyPanes
  /\ content = EmptyPanes
  /\ frame = NoFrame
  /\ readerPc = [p \in Panes |-> "idle"]
  /\ remaining = EmptyPanes
  /\ line = EmptyPanes
  /\ decoded = EmptyPanes
  /\ spawned = [p \in Panes |-> 0]
  /\ inputPc = "idle"
  /\ keys = [k \in Keys |-> 0]

\* The process exists and has not exited; spawned threads run only then.
ProcessAlive == exitStatus = -1

\* ------------------------------------------------------------ main thread
\* Mutant: the arguments are checked only after raw mode has been enabled.
MainCheckArgs_AfterSetup ==
  /\ mainPc = "start"
  /\ IF Len(args) < 2
       THEN /\ mainPc' = "terminated"
            /\ exitStatus' = 1
            /\ printed' = Append(printed, UsageMessage)
            /\ raw' = TRUE
       ELSE /\ mainPc' = "setup"
            /\ UNCHANGED <<exitStatus, printed, raw>>
  /\ UNCHANGED <<args, altScreen, joined>>
  /\ UNCHANGED <<chanVars, stateVars, drawVars, readerVars, inputVars>>

\* main, lines 23-26: the argument check.
MainCheckArgs ==
  /\ mainPc = "start"
  /\ IF Len(args) < 2
       THEN /\ mainPc' = "terminated"
            /\ exitStatus' = 1
            /\ printed' = Append(printed, UsageMessage)
       ELSE /\ mainPc' = "setup"
            /\ UNCHANGED <<exitStatus, printed>>
  /\ UNCHANGED <<args, raw, altScreen, joined>>
  /\ UNCHANGED <<chanVars, stateVars, drawVars, readerVars, inputVars>>

\* main, lines 28-33: raw mode and alternate screen.
MainSetupTerminal ==
  /\ mainPc = "setup"
  /\ raw' = TRUE
  /\ altScreen' = TRUE
  /\ mainPc' = "update"
  /\ UNCHANGED <<args, exitStatus, printed, joined>>
  /\ UNCHANGED <<chanVars, stateVars, drawVars, readerVars, inputVars>>

\* update, lines 65-138: the channel, the shared state, the three threads.
UpdateStart ==
  /\ mainPc = "update"
  /\ rxAlive' = TRUE
  /\ senders' = {"main", "left", "right", "input"}
  /\ title' = [p \in Panes |-> args[ArgIndex(p)]]
  /\ readerPc' = [p \in Panes |-> "start"]
  /\ inputPc' = "read"
  /\ mainPc' = "recv"
  /\ UNCHANGED <<args, raw, altScreen, exitStatus, printed, joined>>
  /\ UNCHANGED <<queue, posted, received, lock, content, drawVars>>
  /\ UNCHANGED <<remaining, line, decoded, spawned, keys>>

\* Mutant: the Exit arm consumes the event and keeps looping.
ExitArm_KeepsLooping ==
  /\ mainPc' = "recv"
  /\ queue' = Tail(queue)
  /\ UNCHANGED <<rxAlive, senders>>

\* update, line 191: `Ok(Event::Exit) => return Ok(())`.  Returning drops
\* rx (and the events still queued), the original tx and the main Arc.
ExitArm ==
  /\ mainPc' = "returned"
  /\ rxAlive' = FALSE
  /\ senders' = senders \ {"main"}
  /\ queue' = <<>>

\* update, lines 143-144: `Ok(Event::Draw)` enters terminal.draw.
DrawArm ==
  /\ mainPc' = "draw"
  /\ queue' = Tail(queue)
  /\ UNCHANGED <<rxAlive, senders>>

\* update, lines 141-142: rx.recv() returns the oldest queued event.  It
\* blocks while the queue is empty; it cannot report disconnection while
\* the Sender `tx` of line 65 is alive, which it is until update returns.
Recv ==
  /\ mainPc = "recv"
  /\ queue # <<>>
  /\ received' = Append(received, Head(queue))
  /\ IF Head(queue) = Draw THEN DrawArm ELSE ExitArm
  /\ UNCHANGED <<args, raw, altScreen, exitStatus, printed, joined, posted>>
  /\ UNCHANGED <<stateVars, frame, readerVars, inputVars>>

\* The frame lines 165-188 build from the content read under the lock.
RenderFrame(st, height) ==
  [drawn |-> TRUE,
   height |-> height,
   snap |-> st,
   part |-> [p \in Panes |-> TailPart(IntoTextLines(st[p]), height)]]

\* Mutant: the draw does not wait for the lock.
DrawLock_WithoutLock ==
  /\ mainPc = "draw"
  /\ lock' = "main"
  /\ \E h \in Heights : frame' = RenderFrame(content, h)
  /\ mainPc' = "drawing"
  /\ UNCHANGED <<args, raw, altScreen, exitStatus, printed, joined>>
  /\ UNCHANGED <<chanVars, title, content, readerVars, inputVars>>

\* Mutant: the draw moves the content out of the state instead of reading it.
DrawLock_TakesContent ==
  /\ mainPc = "draw"
  /\ lock = NoHolder
  /\ lock' = "main"
  /\ \E h \in Heights : frame' = RenderFrame(content, h)
  /\ content' = EmptyPanes
  /\ mainPc' = "drawing"
  /\ UNCHANGED <<args, raw, altScreen, exitStatus, printed, joined>>
  /\ UNCHANGED <<chanVars, title, readerVars, inputVars>>

\* update, lines 145-188: the callback reads the frame size (whatever the
\* terminal's height is now), state.lock() is granted, both panes are drawn.
DrawLock ==
  /\ mainPc = "draw"
  /\ lock = NoHolder
  /\ lock' = "main"
  /\ \E h \in Heights : frame' = RenderFrame(content, h)
  /\ mainPc' = "drawing"
  /\ UNCHANGED <<args, raw, altScreen, exitStatus, printed, joined>>
  /\ UNCHANGED <<chanVars, title, content, readerVars, inputVars>>

\* Mutant: the guard taken by the draw callback is never dropped.
DrawDone_KeepsLock ==
  /\ mainPc = "drawing"
  /\ mainPc' = "recv"
  /\ UNCHANGED <<args, raw, altScreen, exitStatus, printed, joined>>
  /\ UNCHANGED <<chanVars, stateVars, drawVars, readerVars, inputVars>>

\* update, line 189: the callback returns, the guard is dropped, the loop
\* goes back to rx.recv().
DrawDone ==
  /\ mainPc = "drawing"
  /\ lock' = NoHolder
  /\ mainPc' = "recv"
  /\ UNCHANGED <<args, raw, altScreen, exitStatus, printed, joined>>
  /\ UNCHANGED <<chanVars, title, content, drawVars, readerVars, inputVars>>

\* Mutant: the alternate screen is left but raw mode is not disabled.
MainRestore_LeavesRawMode ==
  /\ mainPc = "returned"
  /\ altScreen' = FALSE
  /\ mainPc' = "restored"
  /\ UNCHANGED <<args, raw, exitStatus, printed, joined>>
  /\ UNCHANGED <<chanVars, stateVars, drawVars, readerVars, inputVars>>

\* main, lines 38-41: the terminal is restored after update has returned.
MainRestore ==
  /\ mainPc = "returned"
  /\ raw' = FALSE
  /\ altScreen' = FALSE
  /\ mainPc' = "restored"
  /\ UNCHANGED <<args, exitStatus, printed, joined>>
  /\ UNCHANGED <<chanVars, stateVars, drawVars, readerVars, inputVars>>

\* main, lines 43-47: update's result is Ok here, so nothing is printed;
\* main returns Ok(()) and the process exits, which ends every thread.
MainExit ==
  /\ mainPc = "restored"
  /\ exitStatus' = 0
  /\ mainPc' = "terminated"
  /\ UNCHANGED <<args, raw, altScreen, printed, joined>>
  /\ UNCHANGED <<chanVars, stateVars, drawVars, readerVars, inputVars>>

\* --------------------------------------------------------- reader threads
\* The reader's thread ends: its Sender and its Arc are dropped.
ReaderReturn(p) ==
  /\ readerPc' = [readerPc EXCEPT ![p] = "done"]
  /\ senders' = senders \ {p}

\* Lines 76-87 (left) and 104-115 (right): take the argument, split it,
\* start the command and wrap its output in a line iterator.
ReaderSpawn(p) ==
  /\ ProcessAlive
  /\ readerPc[p] = "start"
  /\ LET tokens == SplitWhitespace(args[ArgIndex(p)]) IN
       IF tokens = <<>> \/ ~ProgramExists(tokens)
         THEN /\ ReaderReturn(p)
              /\ UNCHANGED <<remaining, spawned>>
         ELSE /\ readerPc' = [readerPc EXCEPT ![p] = "read"]
              /\ remaining' = [remaining EXCEPT ![p] = ChildOutput(tokens)]
              /\ spawned' = [spawned EXCEPT ![p] = @ + 1]
              /\ UNCHANGED senders
  /\ UNCHANGED <<args, mainVars, rxAlive, queue, posted, received>>
  /\ UNCHANGED <<stateVars, drawVars, line, decoded, inputVars>>

\* What follows the `while let` loop: the left closure ends (line 98); the
\* right closure is `move || loop { .. }` (line 103) and starts over.
AfterEndOfStream(p) ==
  IF p = "left"
    THEN ReaderReturn(p)
    ELSE /\ readerPc' = [readerPc EXCEPT ![p] = "start"]
         /\ UNCHANGED senders

\* The number of lines the children have delivered so far.
LinesDelivered == Len(decoded["left"]) + Len(decoded["right"])

\* Lines 88 and 116: lines.next() yields the child's next line, or the end
\* of the stream once the child has closed it.
ReaderNext(p) ==
  /\ ProcessAlive
  /\ readerPc[p] = "read"
  /\ IF remaining[p] # <<>>
       THEN /\ LinesDelivered < MaxLines
            /\ line' = [line EXCEPT ![p] = Head(remaining[p])]
            /\ decoded' = [decoded EXCEPT ![p] = Append(@, Head(remaining[p]))]
            /\ remaining' = [remaining EXCEPT ![p] = Tail(@)]
            /\ readerPc' = [readerPc EXCEPT ![p] = "lock"]
            /\ UNCHANGED senders
       ELSE /\ AfterEndOfStream(p)
            /\ UNCHANGED <<line, decoded, remaining>>
  /\ UNCHANGED <<args, mainVars, rxAlive, queue, posted, received>>
  /\ UNCHANGED <<stateVars, drawVars, spawned, inputVars>>

\* Mutant: the line replaces the pane's content instead of extending it.
ReaderLock_Overwrites(p) ==
  /\ ProcessAlive
  /\ readerPc[p] = "lock"
  /\ lock = NoHolder
  /\ lock' = p
  /\ content' = [content EXCEPT ![p] = line[p]]
  /\ readerPc' = [readerPc EXCEPT ![p] = "pushed"]
  /\ UNCHANGED <<args, mainVars, chanVars, title, drawVars>>
  /\ UNCHANGED <<remaining, line, decoded, spawned, inputVars>>

\* Lines 89-92 and 117-120: the lock is granted and the line is pushed.
ReaderLock(p) ==
  /\ ProcessAlive
  /\ readerPc[p] = "lock"
  /\ lock = NoHolder
  /\ lock' = p
  /\ content' = [content EXCEPT ![p] = @ \o line[p]]
  /\ readerPc' = [readerPc EXCEPT ![p] = "pushed"]
  /\ UNCHANGED <<args, mainVars, chanVars, title, drawVars>>
  /\ UNCHANGED <<remaining, line, decoded, spawned, inputVars>>

\* Mutant: either reader pushes the terminator to the left pane.
ReaderPushNewline_LeftPane(p) ==
  /\ ProcessAlive
  /\ readerPc[p] = "pushed"
  /\ content' = [content EXCEPT !["left"] = Append(@, NL)]
  /\ readerPc' = [readerPc EXCEPT ![p] = "send"]
  /\ UNCHANGED <<args, mainVars, chanVars, lock, title, drawVars>>
  /\ UNCHANGED <<remaining, line, decoded, spawned, inputVars>>

\* Lines 93 and 121: push('\n').
ReaderPushNewline(p) ==
  /\ ProcessAlive
  /\ readerPc[p] = "pushed"
  /\ content' = [content EXCEPT ![p] = Append(@, NL)]
  /\ readerPc' = [readerPc EXCEPT ![p] = "send"]
  /\ UNCHANGED <<args, mainVars, chanVars, lock, title, drawVars>>
  /\ UNCHANGED <<remaining, line, decoded, spawned, inputVars>>

\* Mutant: the reader goes on without posting a Draw.
ReaderSend_PostsNothing(p) ==
  /\ ProcessAlive
  /\ readerPc[p] = "send"
  /\ readerPc' = [readerPc EXCEPT ![p] = "sent"]
  /\ UNCHANGED <<args, mainVars, chanVars>>
  /\ UNCHANGED <<stateVars, drawVars, remaining, line, decoded, spawned>>
  /\ UNCHANGED inputVars

\* Lines 94-96 and 122-124: send(Event::Draw), the guard still in scope.
\* The send fails once rx is gone.
ReaderSend(p) ==
  /\ ProcessAlive
  /\ readerPc[p] = "send"
  /\ IF rxAlive
       THEN /\ queue' = Append(queue, Draw)
            /\ posted' = Append(posted, Draw)
            /\ readerPc' = [readerPc EXCEPT ![p] = "sent"]
       ELSE /\ readerPc' = [readerPc EXCEPT ![p] = "failed"]
            /\ UNCHANGED <<queue, posted>>
  /\ UNCHANGED <<args, mainVars, rxAlive, senders, received>>
  /\ UNCHANGED <<stateVars, drawVars, remaining, line, decoded, spawned>>
  /\ UNCHANGED inputVars

\* Mutant: the reader's guard is never dropped.
ReaderUnlock_KeepsLock(p) ==
  /\ ProcessAlive
  /\ readerPc[p] \in {"sent", "failed"}
  /\ IF readerPc[p] = "sent"
       THEN /\ readerPc' = [readerPc EXCEPT ![p] = "read"]
            /\ UNCHANGED senders
       ELSE ReaderReturn(p)
  /\ UNCHANGED <<args, mainVars, rxAlive, queue, posted, received>>
  /\ UNCHANGED <<stateVars, drawVars>>
  /\ UNCHANGED <<remaining, line, decoded, spawned, inputVars>>

\* Lines 95-97 and 123-125: the guard goes out of scope at the end of the
\* loop body or at the `return`; then the next iteration, or the thread's end.
ReaderUnlock(p) ==
  /\ ProcessAlive
  /\ readerPc[p] \in {"sent", "failed"}
  /\ lock' = NoHolder
  /\ IF readerPc[p] = "sent"
       THEN /\ readerPc' = [readerPc EXCEPT ![p] = "read"]
            /\ UNCHANGED senders
       ELSE ReaderReturn(p)
  /\ UNCHANGED <<args, mainVars, rxAlive, queue, posted, received>>
  /\ UNCHANGED <<title, content, drawVars>>
  /\ UNCHANGED <<remaining, line, decoded, spawned, inputVars>>

\* ----------------------------------------------------------- input thread
\* The number of key events read so far.
KeysRead == keys["q"] + keys["k"]

\* Mutant: every key, not only `q`, leads to a send.
InputRead_AnyKeySends(k) ==
  /\ ProcessAlive
  /\ inputPc = "read"
  /\ KeysRead < MaxKeys
  /\ keys' = [keys EXCEPT ![k] = @ + 1]
  /\ inputPc' = "send"
  /\ UNCHANGED <<args, mainVars, chanVars, stateVars, drawVars, readerVars>>

\* Lines 131-132: event::read() returns a key event; only `q` leads to a send.
InputRead(k) ==
  /\ ProcessAlive
  /\ inputPc = "read"
  /\ KeysRead < MaxKeys
  /\ keys' = [keys EXCEPT ![k] = @ + 1]
  /\ inputPc' = IF k = "q" THEN "send" ELSE "read"
  /\ UNCHANGED <<args, mainVars, chanVars, stateVars, drawVars, readerVars>>

\* Lines 133-135: send(Event::Exit); on failure the thread returns.
InputSend ==
  /\ ProcessAlive
  /\ inputPc = "send"
  /\ IF rxAlive
       THEN /\ queue' = Append(queue, Exit)
            /\ posted' = Append(posted, Exit)
            /\ inputPc' = "read"
            /\ UNCHANGED senders
       ELSE /\ inputPc' = "done"
            /\ senders' = senders \ {"input"}
            /\ UNCHANGED <<queue, posted>>
  /\ UNCHANGED <<args, mainVars, rxAlive, received>>
  /\ UNCHANGED <<stateVars, drawVars, readerVars, keys>>

\* ---------------------------------------------------------- specification
Next ==
  \/ MainCheckArgs
  \/ MainSetupTerminal
  \/ UpdateStart
  \/ Recv
  \/ DrawLock
  \/ DrawDone
  \/ MainRestore
  \/ MainExit
  \/ \E p \in Panes : ReaderSpawn(p)
  \/ \E p \in Panes : ReaderNext(p)
  \/ \E p \in Panes : ReaderLock(p)
  \/ \E p \in Panes : ReaderPushNewline(p)
  \/ \E p \in Panes : ReaderSend(p)
  \/ \E p \in Panes : ReaderUnlock(p)
  \/ \E k \in Keys : InputRead(k)
  \/ InputSend

Spec == Init /\ [][Next]_vars

\* The scheduler runs every thread that can take a step: the render loop
\* and main, the input thread's send, and a reader from the moment it has a
\* line until it has released the lock.  Nothing obliges a child to print
\* or the user to press a key, so ReaderNext, ReaderSpawn and InputRead
\* carry no fairness.
Fairness ==
  /\ WF_vars(Recv)
  /\ WF_vars(DrawLock)
  /\ WF_vars(DrawDone)
  /\ WF_vars(MainRestore)
  /\ WF_vars(MainExit)
  /\ WF_vars(InputSend)
  /\ \A p \in Panes :
       /\ WF_vars(ReaderLock(p))
       /\ WF_vars(ReaderPushNewline(p))
       /\ WF_vars(ReaderSend(p))
       /\ WF_vars(ReaderUnlock(p))

FairSpec == Spec /\ Fairness

\* ------------------------------------------------------ derived notions
Running == mainPc \in {"recv", "draw", "drawing"}
UpdateReturned == mainPc \in {"returned", "restored"} \/ (mainPc = "terminated" /\ exitStatus = 0)
Count(s, e) == Cardinality({i \in 1..Len(s) : s[i] = e})
Front(s) == SubSeq(s, 1, Len(s) - 1)
LastLines(lines, n) == SubSeq(lines, Len(lines) - n + 1, Len(lines))
IsPrefix(s, t) == Len(s) <= Len(t) /\ SubSeq(t, 1, Len(s)) = s

\* Each line followed by one terminator, concatenated in order.
RECURSIVE WithTerminators(_)
WithTerminators(lines) ==
  IF lines = <<>> THEN <<>>
  ELSE Head(lines) \o <<NL>> \o WithTerminators(Tail(lines))

\* The main thread takes the step that draws a frame.
PerformsDraw == mainPc = "draw" /\ mainPc' = "drawing"
ExitPosted == Count(posted, Exit) > 0
ExitReceived == Count(received, Exit) > 0

\* While the render loop runs, update's own Sender is alive, so rx.recv()
\* never reports disconnection: `break 'outer` (line 192) and the joins
\* behind it (lines 197-205) are not reached, and `joined` stays empty.
RecvCannotDisconnect ==
  /\ Running => "main" \in senders
  /\ joined = {}

\* ------------------------------------------------------------------ C1
\* C1 (as claimed): every drawn frame shows, for each pane, exactly the last
\* min(N, H) lines of the N lines the pane held when it was drawn at
\* height H, in their original order.
C1_TailSelection ==
  frame.drawn =>
    \A p \in Panes :
      LET lines == IntoTextLines(frame.snap[p]) IN
        frame.part[p] = LastLines(lines, Min(Len(lines), frame.height))

\* ------------------------------------------------------------------ C2
\* C2 (as claimed): from the moment an Exit event has been posted, the
\* render loop performs no further draw.
C2_NoDrawOncePosted == [][ExitPosted => ~PerformsDraw]_vars

\* C2 (amended): events are received in the order they were posted; an
\* Exit, once received, is the last event ever received, so a Draw posted
\* after it is never processed; from the moment an Exit has been received
\* update has returned and no further draw or receive happens.
C2_QuitPropagation ==
  /\ [](/\ Len(received) <= Len(posted)
        /\ \A i \in 1..Len(received) :
             /\ received[i] = posted[i]
             /\ received[i] = Exit => i = Len(received)
        /\ ExitReceived => UpdateReturned)
  /\ [][ExitReceived => (~PerformsDraw /\ received' = received)]_vars

\* An Exit has been received while a Draw posted after it was never received.
C2_Witness ==
  /\ ExitReceived
  /\ \E i \in 1..Len(posted) : \E j \in 1..Len(posted) :
       i < j /\ posted[i] = Exit /\ posted[j] = Draw
  /\ Len(received) < Len(posted)

\* ------------------------------------------------------------------ C3
\* C3 (as claimed): each reader starts its command at most once, and a
\* command that prints one line leaves at most one line in its pane.
C3_ReaderRunsOnce ==
  \A p \in Panes :
    /\ spawned[p] <= 1
    /\ (Len(args) >= 2 /\ args[ArgIndex(p)] = CmdPrintA)
         => Len(IntoTextLines(content[p])) <= 1

\* ------------------------------------------------------------------ C4
\* C4: whenever `q` has been read while the render loop is running, the
\* process eventually terminates with the terminal restored and status 0.
QuitPressedWhileRunning == Running /\ inputPc = "send"
CleanlyTerminated ==
  mainPc = "terminated" /\ ~raw /\ ~altScreen /\ exitStatus = 0
C4_CleanTermination == QuitPressedWhileRunning ~> CleanlyTerminated

\* The process has terminated cleanly after a `q`, while one reader had
\* finished and the other was still in the middle of its child's output.
C4_Witness ==
  /\ CleanlyTerminated
  /\ keys["q"] > 0
  /\ readerPc["left"] = "done"
  /\ readerPc["right"] = "read" /\ remaining["right"] # <<>>

\* ------------------------------------------------------------------ C5
\* C5 (as claimed): when the process has terminated after update ran, all
\* three spawned threads have been joined.
C5_JoinedBeforeTerminated ==
  (mainPc = "terminated" /\ Len(args) >= 2)
    => joined = {"left", "right", "input"}

\* ------------------------------------------------------------------ C6
\* C6: started with fewer than two arguments, the process never enters raw
\* mode or the alternate screen, never starts a thread or a command, and
\* terminates with a non-zero status having printed the usage message.
C6_UsageError ==
  Len(args) < 2 =>
    /\ mainPc \in {"start", "terminated"}
    /\ ~raw /\ ~altScreen
    /\ \A p \in Panes : readerPc[p] = "idle" /\ spawned[p] = 0
    /\ inputPc = "idle"
    /\ ~rxAlive
    /\ mainPc = "terminated" => (exitStatus > 0 /\ printed = <<UsageMessage>>)

\* The process was started with one argument and has terminated.
C6_Witness == Len(args) = 1 /\ mainPc = "terminated"

\* ------------------------------------------------------------------ C7
\* C7 (as claimed): if one of the two command strings holds no token, the
\* program never reaches the running state.
C7_EmptyCommandRejected ==
  (Len(args) >= 2 /\ \E i \in 1..2 : SplitWhitespace(args[i]) = <<>>)
    => ~Running

\* ------------------------------------------------------------------ C9
\* C9 (as claimed): the Exit events posted are as many as the `q` presses
\* handled, the watcher never stops, and the render loop receives at most
\* one Exit.
C9_EveryQuitPosted ==
  /\ inputPc = "read" => Count(posted, Exit) = keys["q"]
  /\ inputPc # "done"
  /\ Count(received, Exit) <= 1

\* C9 (amended): every `q` press is posted as exactly one Exit, after which
\* the watcher keeps watching, except a `q` press whose send finds the
\* receiver gone (update has returned): that one posts nothing and ends the
\* watcher.  Other keys post nothing.  The render loop receives at most one
\* Exit.
C9_InputWatcher ==
  /\ Count(posted, Exit)
       + (IF inputPc = "send" THEN 1 ELSE 0)
       + (IF inputPc = "done" THEN 1 ELSE 0) = keys["q"]
  /\ Count(posted, Draw) + Count(posted, Exit) = Len(posted)
  /\ inputPc = "done" => (~rxAlive /\ UpdateReturned)
  /\ Count(received, Exit) <= 1

\* Another key and then `q` were pressed: one Exit is posted and the watcher
\* is watching again.
C9_Witness ==
  /\ keys["k"] = 1 /\ keys["q"] = 1
  /\ Count(posted, Exit) = 1
  /\ inputPc = "read"

\* ------------------------------------------------------------------ C10
\* C10: each pane's content is the lines its reader has decoded, in order,
\* each followed by one terminator (the line being appended is missing
\* before its push and lacks its terminator between the two pushes); and
\* no step removes or rewrites content: the old content is a prefix of the
\* new.
C10_AppendOnly ==
  /\ [](\A p \in Panes :
          /\ content[p] =
               CASE readerPc[p] = "lock" -> WithTerminators(Front(decoded[p]))
                 [] readerPc[p] = "pushed" ->
                      WithTerminators(Front(decoded[p])) \o line[p]
                 [] OTHER -> WithTerminators(decoded[p])
          /\ readerPc[p] \notin {"lock", "pushed"} =>
               /\ Count(content[p], NL) = Len(decoded[p])
               /\ IntoTextLines(content[p]) = decoded[p])
  /\ [][\A p \in Panes : IsPrefix(content[p], content'[p])]_vars

\* The right pane holds the lines of two runs of its command, complete.
C10_Witness ==
  /\ Len(decoded["right"]) >= 2
  /\ spawned["right"] >= 2
  /\ readerPc["right"] = "read"
  /\ content["right"] = WithTerminators(decoded["right"])

\* ------------------------------------------------------------------ C11
Other(p) == IF p = "left" THEN "right" ELSE "left"

\* Reader p takes a step (every step of a reader moves its position).
ReaderSteps(p) == readerPc[p] # "idle" /\ readerPc'[p] # readerPc[p]

\* C11: a step of one reader leaves the other pane's content and both
\* titles unchanged; the titles are the two command strings throughout.
C11_PaneIndependence ==
  /\ [][\A p \in Panes :
          ReaderSteps(p) =>
            (content'[Other(p)] = content[Other(p)] /\ title' = title)]_vars
  /\ [](readerPc["left"] # "idle" =>
          \A p \in Panes : title[p] = args[ArgIndex(p)])

\* Both readers have appended a line, each to its own pane.
C11_Witness ==
  /\ args = <<CmdPrintA, CmdPrintA>>
  /\ \A p \in Panes : content[p] = <<"a", NL>> /\ readerPc[p] \in {"read", "done"}

\* ------------------------------------------------------------------ C12
\* C12 (as claimed): a reader about to send on the channel, or having just
\* sent, does not hold the lock.
C12_NoLockWhileSending ==
  \A p \in Panes : readerPc[p] \in {"send", "sent", "failed"} => lock # p

\* ------------------------------------------------------------------ C13
\* C13: the content of each pane that a draw read under the lock is empty
\* or ends with a line terminator, and is made of whole lines only.
C13_NoTornLines ==
  frame.drawn =>
    \A p \in Panes :
      /\ frame.snap[p] = <<>> \/ frame.snap[p][Len(frame.snap[p])] = NL
      /\ WithTerminators(IntoTextLines(frame.snap[p])) = frame.snap[p]

\* A draw holds the lock and has read one pane's line while the other reader
\* has a line decoded and waits for the lock.
C13_Witness ==
  /\ mainPc = "drawing"
  /\ \E p \in Panes : readerPc[p] = "lock" /\ frame.snap[Other(p)] # <<>>

\* ------------------------------------------------------------------ C14
\* C14: a reader that is starting or reading its child (or has ended), the
\* main thread in rx.recv() or outside the render loop, and the input thread
\* always, do not hold the lock; the holder, if any, is a thread inside its
\* critical section.
C14_NoLockWhileBlocked ==
  /\ lock \in {NoHolder, "main", "left", "right"}
  /\ \A p \in Panes :
       readerPc[p] \in {"idle", "start", "read", "lock", "done"} => lock # p
  /\ mainPc # "drawing" => lock # "main"

\* After a line was appended and drawn, the reader is reading its child
\* again, the render loop is in rx.recv() and the input thread waits for a
\* key; the lock is free.
C14_Witness ==
  /\ readerPc["right"] = "read" /\ Len(decoded["right"]) >= 1
  /\ mainPc = "recv" /\ queue = <<>> /\ frame.drawn
  /\ inputPc = "read"
  /\ lock = NoHolder

\* ------------------------------------------------------------------ C15
\* A reader has a decoded line and has not yet released the lock.
InAppend(p) == readerPc[p] \in {"lock", "pushed", "send", "sent", "failed"}

\* C15: under fair scheduling, while the process lives no reader stays for
\* ever waiting for the lock or sending (it always comes back to reading its
\* child, or ends), the input thread does not stay for ever sending, and the
\* draw does not stay for ever waiting for the lock; a thread stops waiting
\* for the lock only by being granted it.
C15_DeadlockFreedom ==
  /\ \A p \in Panes : []<>(~InAppend(p) \/ ~ProcessAlive)
  /\ []<>(inputPc # "send" \/ ~ProcessAlive)
  /\ []<>(mainPc # "draw")
  /\ [][\A p \in Panes :
           (readerPc[p] = "lock" /\ readerPc'[p] # "lock") =>
             (lock = NoHolder /\ lock' = p)]_vars
  /\ [][(mainPc = "draw" /\ mainPc' # "draw") =>
           (lock = NoHolder /\ lock' = "main")]_vars

\* The draw waits for the lock while a reader holds it.
C15_Witness == mainPc = "draw" /\ lock \in Panes

\* ------------------------------------------------------------------ C18
\* s is a run of consecutive elements of t, in t's order.
IsRunOf(s, t) ==
  \E i \in 0..(Len(t) - Len(s)) : SubSeq(t, i + 1, i + Len(s)) = s

\* The main thread takes a step of the handling of a Draw event.
HandlesDraw == Running /\ mainPc' # mainPc /\ mainPc' \in {"recv", "draw", "drawing"}

Quiescent ==
  /\ mainPc = "recv"
  /\ queue = <<>>
  /\ \A p \in Panes : readerPc[p] \in {"start", "read", "done"}
  /\ ~ExitReceived

\* C19: when nothing is pending, as many Draw events were posted as lines
\* were appended, all were received, and the content the last draw read is
\* the current content of both panes.
C19_NoLostUpdate ==
  Quiescent =>
    /\ Count(posted, Draw) = LinesDelivered
    /\ received = posted
    /\ frame.snap = content
    /\ frame.drawn = (LinesDelivered > 0)

\* Both readers have appended a line, both Draws were handled, and the last
\* frame shows both panes as they are.
C19_Witness ==
  /\ Quiescent
  /\ \A p \in Panes : content[p] # <<>>
  /\ frame.snap = content

====
